---- MODULE Spec2Model ----
(***************************************************************************)
(* Hot-search analysis pipeline (weibo_hotspot_analysis.py, providers.py,  *)
(* config.py): the fetcher, the per-topic enricher, the thread-pool batch  *)
(* coordinator of analyze_topics and the hour-bucketed history store.      *)
(*                                                                         *)
(* Exceptions are explicit: a function that may raise returns a record     *)
(* with a field raised.  Hours are integers; an instant is an hour plus    *)
(* the serial number of the clock read that produced it.                   *)
(***************************************************************************)
EXTENDS Integers, Sequences, FiniteSets, TLC

VARIABLES
    MAX_TOPICS,      \* Config.MAX_TOPICS, read once at start-up
    CONCURRENCY,     \* Config.CONCURRENCY, read once at start-up
    use_api,         \* not args.use_example
    history_weibo,   \* self.history_weibo
    history_douyin,  \* self.history_douyin
    file_weibo,      \* content of history_data.json
    file_douyin,     \* content of history_data_douyin.json
    clock,           \* hour shown by the wall clock at its latest read
    reads,           \* number of clock reads made by analyze_topics so far
    pc,              \* position of the coordinating thread
    source,          \* platform of the batch in progress
    topics,          \* the fetched topic list
    task,            \* per topic: "queued", "running", "done", "collected"
    future,          \* per topic: the outcome its future holds
    results,         \* the results list of analyze_topics, in collection order
    calls,           \* number of analyze_topics calls that have returned
    fetched,         \* how the latest fetch went, until its batch is dispatched (observer)
    last,            \* what the latest analyze_topics call did (observer)
    written,         \* per platform: every timestamp_hour ever in its history (observer)
    n_updates,       \* per platform: number of history updates made (observer)
    clock_back,      \* per platform: TRUE once an update of the platform read an
                     \* earlier hour than the platform's update before it (observer)
    env,             \* per topic: what the providers answer to its enrichment
    mode,            \* entry point: "once", "cli" (main --interval), "server" (app.py)
    sched,           \* position of the scheduling loop
    interval,        \* seconds between two cycles (args.interval; 3600 in app.py)
    cycle,           \* number of cycles the scheduling loop has started
    cycle_result,    \* "none", or "running", "complete", "failed" for the latest cycle
    wait,            \* seconds of the scheduling loop's latest sleep
    in_flight,       \* per platform: analyze_topics calls that have not returned
    invoked,         \* per platform: analyze_topics calls of the current cycle
    report,          \* the report artifact weibo_analysis_report.html
    generated,       \* TRUE once a generate_html_report call has written the report
                     \* and returned its path (observer)
    ran,             \* the calls the current cycle has made: <<"fetch", platform>>,
                     \* <<"fetch_empty", platform>> for a fetch that returned no
                     \* topic, <<"analyze", platform>>, <<"report", "all">> (observer)
    served           \* what the latest request of the root endpoint was answered with

config_vars == <<MAX_TOPICS, CONCURRENCY, use_api>>
store_vars  == <<history_weibo, history_douyin, file_weibo, file_douyin>>
pool_vars   == <<task, future, results>>
obs_vars    == <<last, written, n_updates, clock_back>>
sched_vars  == <<mode, sched, interval, cycle, cycle_result, wait, in_flight, invoked, report,
                 generated, ran, served>>
vars == <<MAX_TOPICS, CONCURRENCY, use_api, history_weibo, history_douyin,
          file_weibo, file_douyin, clock, reads, pc, source, topics, task,
          future, results, calls, fetched, last, written, n_updates, clock_back,
          env, mode, sched, interval, cycle, cycle_result, wait, in_flight, invoked,
          report, generated, ran, served>>

----------------------------------------------------------------------------
(* Bounds of the model *)

MaxTopicsCfg == 3      \* MAX_TOPICS ranges over 1..MaxTopicsCfg
MaxConcurrencyCfg == 2 \* CONCURRENCY ranges over 1..MaxConcurrencyCfg
MaxRaw == 3            \* longest list the hot-search source returns
MaxUpdates == 2        \* analyze_topics calls per behaviour of SpecStore

(* Program constants *)

HISTORY_CAP == 24      \* "if len(history_list) > 24"
EXAMPLE_TOPICS == 2    \* length of the list built by _load_example_data

Sources == {"weibo", "douyin"}

Min(a, b) == IF a <= b THEN a ELSE b
Max(a, b) == IF a >= b THEN a ELSE b

----------------------------------------------------------------------------
(* Fetcher: fetch_hot_searches, _load_example_data, _normalize_items *)

\* What the call of the hot-search source ends in.
\*   transport_error  requests.get raises
\*   http_error       response.raise_for_status() raises
\*   not_json         response.json() raises
\*   bad_code         the envelope's code is not 200
\*   bad_items        "list" holds entries that are not mappings (item.get raises)
\*   no_list          code 200 and no "result" or no "list" key: the defaults of
\*                    data.get("result", {}).get("list", []) give the empty list
\*   ok               code 200 and a list of n well-formed items
ApiOutcomes ==
    [kind : {"transport_error", "http_error", "not_json", "bad_code", "bad_items",
             "no_list"},
     n : {0}]
    \cup [kind : {"ok"}, n : 0..MaxRaw]

\* With use_api false the source is not called.
NotCalled == [kind |-> "not_called", n |-> 0]

\* The list under result.list: item i is the i-th entry of the platform's ranking.
RawItems(n) == [i \in 1..n |-> [word |-> <<"api", i>>, tag |-> IF i = 1 THEN "hot" ELSE ""]]

load_example_data(src) ==
    [i \in 1..EXAMPLE_TOPICS |->
        [rank |-> i, title |-> <<"example", i>>, label |-> IF i = 1 THEN "hot" ELSE "new",
         source |-> src]]

\* raw_items[:limit], for limit >= 0
Truncate(raw_items, limit) == SubSeq(raw_items, 1, Min(Len(raw_items), limit))

\* Variant: ranks counted from 0, as enumerate yields them.
normalize_items_rank0(raw_items, src, limit) ==
    LET cut == Truncate(raw_items, limit)
    IN  [i \in 1..Len(cut) |->
            [rank |-> i - 1, title |-> cut[i].word, label |-> cut[i].tag, source |-> src]]

normalize_items(raw_items, src, limit) ==
    LET cut == Truncate(raw_items, limit)
    IN  IF src = "weibo"
        THEN [i \in 1..Len(cut) |->
                [rank |-> i, title |-> cut[i].word, label |-> cut[i].tag, source |-> "weibo"]]
        ELSE IF src = "douyin"
        THEN [i \in 1..Len(cut) |->
                [rank |-> i, title |-> cut[i].word, label |-> "", source |-> "douyin"]]
        ELSE << >>

\* The try block of fetch_hot_searches raises into its own except clause.
ApiRaises(outcome) ==
    outcome.kind \in {"transport_error", "http_error", "not_json", "bad_items"}

\* Variant: no except clause, an error of the source call propagates.
fetch_propagating(src, api, outcome, limit) ==
    IF api /\ ApiRaises(outcome)
    THEN [raised |-> TRUE, items |-> << >>]
    ELSE IF api /\ outcome.kind = "ok"
    THEN [raised |-> FALSE, items |-> normalize_items(RawItems(outcome.n), src, limit)]
    ELSE [raised |-> FALSE, items |-> load_example_data(src)]

fetch_hot_searches(src, api, outcome, limit) ==
    IF api
    THEN IF ApiRaises(outcome)
         THEN [raised |-> FALSE, items |-> load_example_data(src)]
         ELSE IF outcome.kind = "bad_code"
         THEN [raised |-> FALSE, items |-> load_example_data(src)]
         ELSE [raised |-> FALSE, items |-> normalize_items(RawItems(outcome.n), src, limit)]
    ELSE [raised |-> FALSE, items |-> load_example_data(src)]

----------------------------------------------------------------------------
(* Enricher: _process_single_topic *)

\* Scores are kept in tenths: total = interest*0.8 + usefulness*0.2 is
\* (8*interest + 2*usefulness)/10, exact in tenths for integer sub-scores.
Total10(interest, usefulness) == 8 * interest + 2 * usefulness

\* Variant: the boundaries 80 and 60 belong to the lower class.
QualityClassExclusive(total10) ==
    IF total10 > 800 THEN "excellent"
    ELSE IF total10 > 600 THEN "good"
    ELSE "needs-improvement"

QualityClass(total10) ==
    IF total10 >= 800 THEN "excellent"
    ELSE IF total10 >= 600 THEN "good"
    ELSE "needs-improvement"

\* A link or a title, as far as the competitor filter reads it: the words of
\* interest that occur in it when case is ignored, and whether it is written
\* in lower case throughout.
Text(has, lowercase) == [has |-> has, lowercase |-> lowercase]

\* Variant: the text is compared as it came.
lower_skipped(text) == text

\* str.lower()
lower(text) == [text EXCEPT !.lowercase = TRUE]

\* x in text, for a lower-case x: the substring test is case-sensitive.
contains(x, text) == text.lowercase /\ x \in text.has

\* "Skip dictionary/grammar sites"
DenyWords == {"dictionary", "thesaurus", "grammar", "stackexchange", "definition", "meaning"}

\* The two "continue" tests of the competitor loop, on the lowered link and title.
skipped(link, title) ==
    \/ contains("similarweb.com", link) \/ contains("similarweb", title)
    \/ \E x \in DenyWords : contains(x, link) \/ contains(x, title)

COMPETITOR_LIMIT == 2  \* "if count >= 2: break"

\* Variant: every result that passes the filter is taken.
take_all(n) == TRUE

\* The loop goes on while count < 2.
below_limit(n) == n < COMPETITOR_LIMIT

\* The loop over comp_results.  A result without a string under 'link' or
\* 'title' (ok false) raises into the except clause of the competitor search,
\* which keeps the competitors appended so far.
RECURSIVE competitors_from(_, _)
competitors_from(comp_results, competitors) ==
    IF comp_results = << >> \/ ~below_limit(Len(competitors)) THEN competitors
    ELSE LET res == Head(comp_results)
         IN  IF ~res.ok THEN competitors
             ELSE IF skipped(lower(res.link), lower(res.title))
             THEN competitors_from(Tail(comp_results), competitors)
             ELSE competitors_from(Tail(comp_results),
                                   Append(competitors, [name |-> res.title, url |-> res.link]))

\* The competitor search of one creative.  comp.raises: search itself raises.
competitor_search(comp) ==
    IF comp.raises THEN << >> ELSE competitors_from(comp.results, << >>)

NoScores == [present |-> FALSE, interest |-> 0, usefulness |-> 0, total |-> 0]

\* scores = creative.get("scores", {}); scores["total"] = total: the total is
\* written into the creative's own scores mapping, or, when the creative has
\* none, into a mapping that is not attached to the creative.
derive_scores(c) ==
    IF c.has_scores
    THEN [present |-> TRUE, interest |-> c.interest, usefulness |-> c.usefulness,
          total |-> Total10(c.interest, c.usefulness)]
    ELSE NoScores

\* The sub-scores the total is computed from: scores.get(..., 0).
Interest(c) == IF c.has_scores THEN c.interest ELSE 0
Usefulness(c) == IF c.has_scores THEN c.usefulness ELSE 0

\* One creative of the generation output, as far as the post-processing reads it.
\*   has_name     the mapping has a "name" key (creative["name"] raises without it)
\*   has_scores   the mapping has a "scores" mapping
\*   numeric      the sub-scores are numbers (the multiplication raises otherwise)
\*   given_total  the "total" the output supplies in scores, in tenths; -1 for none
\*   given_class  the "quality_class" the output supplies; "none" for none
\*   comp         what the competitor search of the creative meets
\* The post-processing of creative i of a topic: the body of the for loop.
post_process(topic, i, c) ==
    IF ~c.has_name \/ (c.has_scores /\ ~c.numeric)
    THEN [raised |-> TRUE,
          creative |-> [id |-> <<topic.rank, i>>, competitors |-> << >>,
                        scores |-> NoScores, quality_class |-> "none"]]
    ELSE [raised |-> FALSE,
          creative |-> [id |-> <<topic.rank, i>>,
                        competitors |-> competitor_search(c.comp),
                        scores |-> derive_scores(c),
                        quality_class |-> QualityClass(Total10(Interest(c), Usefulness(c)))]]

\* The research value of a result.
\*   "summary"          the research mapping of the generation output
\*   "analysis_failed"  the default of llm_result.get("research", ...)
\*   "error"            the placeholder of the except clause
Research(llm) == IF llm.has_research THEN "summary" ELSE "analysis_failed"

\* Lines 157-209 run outside the try block: the initial search and the
\* building of the context and of the prompt.  search is "ok" or "raise".
\* Lines 211-287 are the try block and its except clause.  llm is what
\* self.llm_provider.generate_json ends in: kind "raise", or kind "mapping"
\* with the creatives of the mapping.
process_single_topic(topic, search, llm) ==
    IF search = "raise"
    THEN [raised |-> TRUE,
          result |-> [topic |-> topic, research |-> "none", creatives |-> << >>]]
    ELSE LET done == [i \in 1..Len(llm.creatives) |-> post_process(topic, i, llm.creatives[i])]
             failed == llm.kind = "raise" \/ \E i \in 1..Len(done) : done[i].raised
         IN  IF failed
             THEN [raised |-> FALSE,
                   result |-> [topic |-> topic, research |-> "error", creatives |-> << >>]]
             ELSE [raised |-> FALSE,
                   result |-> [topic |-> topic, research |-> Research(llm),
                               creatives |-> [i \in 1..Len(done) |-> done[i].creative]]]

\* A search result with a clean link and a clean title.
CleanResult == [ok |-> TRUE, link |-> Text({}, TRUE), title |-> Text({}, FALSE)]

\* A well-formed creative with the given sub-scores.
Creative(interest, usefulness) ==
    [has_name |-> TRUE, has_scores |-> TRUE, numeric |-> TRUE, interest |-> interest,
     usefulness |-> usefulness, given_total |-> -1, given_class |-> "none",
     comp |-> [raises |-> FALSE, results |-> <<CleanResult>>]]

LLMRaises == [kind |-> "raise", has_research |-> FALSE, creatives |-> << >>]

LLMMapping(has_research, creatives) ==
    [kind |-> "mapping", has_research |-> has_research, creatives |-> creatives]

----------------------------------------------------------------------------
(* History store: _load_history_data, _save_history_data and the tail of
   analyze_topics *)

\* A persisted file is missing, unparseable, or holds a JSON array of batches.
MissingFile == [state |-> "missing", data |-> << >>]
CorruptFile == [state |-> "corrupt", data |-> << >>]
JsonFile(data) == [state |-> "json", data |-> data]

\* Variant: the file is not read.
load_nothing(file) == << >>

\* os.path.exists, open, json.load; every exception is caught and gives [].
load_history_data(file) == IF file.state = "json" THEN file.data ELSE << >>

\* Variant: only the new batch is written.
save_newest_only(data, file, outcome) ==
    IF outcome = "ok" THEN JsonFile(SubSeq(data, 1, 1))
    ELSE IF outcome = "dump_failed" THEN [state |-> "corrupt", data |-> << >>]
    ELSE file

\* Variant: the file is opened for appending, the new batch is added to it.
save_appending(data, file, outcome) ==
    IF outcome = "ok" THEN JsonFile(SubSeq(data, 1, 1) \o file.data)
    ELSE IF outcome = "dump_failed" THEN [state |-> "corrupt", data |-> << >>]
    ELSE file

\* outcome: "ok"; "open_failed" (open raises, the file is untouched);
\* "dump_failed" (open has truncated the file and json.dump raises).
\* The exception is caught: the call returns in every case.
save_history_data(data, file, outcome) ==
    IF outcome = "ok" THEN JsonFile(data)
    ELSE IF outcome = "dump_failed" THEN CorruptFile
    ELSE file

SaveOutcomes == {"ok", "open_failed", "dump_failed"}

\* Variant: the results stay in collection order.
sort_skipped(rs) == rs

\* results.sort(key=lambda x: x["topic"]["rank"]): ascending and stable, so
\* an entry goes after every entry of a smaller rank and after the earlier
\* entries of its own rank.
sort_by_rank(rs) ==
    LET before(i) == {j \in 1..Len(rs) :
                        \/ rs[j].topic.rank < rs[i].topic.rank
                        \/ rs[j].topic.rank = rs[i].topic.rank /\ j < i}
    IN  [k \in 1..Len(rs) |-> rs[CHOOSE i \in 1..Len(rs) : Cardinality(before(i)) = k - 1]]

\* The batch_entry of analyze_topics: hour h, read number k.
batch_entry(h, k, rs) ==
    [timestamp |-> <<h, k>>, timestamp_hour |-> h, results |-> rs]

\* Variant: every batch is prepended.
always_prepend(history_list, entry) == <<entry>> \o history_list

\* Variant: a batch of a new hour goes to the end of the list.
overwrite_or_append(history_list, entry) ==
    IF history_list # << >> /\ history_list[1].timestamp_hour = entry.timestamp_hour
    THEN [history_list EXCEPT ![1] = entry]
    ELSE history_list \o <<entry>>

\* "Overwrite if same hour exists (latest update), else prepend"
overwrite_or_prepend(history_list, entry) ==
    IF history_list # << >> /\ history_list[1].timestamp_hour = entry.timestamp_hour
    THEN [history_list EXCEPT ![1] = entry]
    ELSE <<entry>> \o history_list

\* Variant: nothing is evicted.
keep_all(history_list) == history_list

\* Variant: pop(0), the newest entry is evicted instead of the oldest.
keep_oldest(history_list) ==
    IF Len(history_list) > HISTORY_CAP
    THEN SubSeq(history_list, 2, Len(history_list))
    ELSE history_list

\* "Keep only last 24 batches": one pop() when the list is longer than 24.
keep_last(history_list) ==
    IF Len(history_list) > HISTORY_CAP
    THEN SubSeq(history_list, 1, Len(history_list) - 1)
    ELSE history_list

update_history(history_list, entry) == keep_last(overwrite_or_prepend(history_list, entry))

\* The hours datetime.now(CHINA_TZ) may show when the previous read showed c:
\* the same hour, the next one, or, after the wall clock was reset, hour 0.
ClockReads(c) == {c, c + 1, 0}

\* Variant: the weibo list and file are selected for every platform.
select_weibo(src) == "weibo"

\* "Select correct history list and file": weibo's for weibo, douyin's otherwise.
select_history(src) == IF src = "weibo" THEN "weibo" ELSE "douyin"

HistoryOf(src) == IF src = "weibo" THEN history_weibo ELSE history_douyin
FileOf(src) == IF src = "weibo" THEN file_weibo ELSE file_douyin

Hours(history_list) == {history_list[i].timestamp_hour : i \in 1..Len(history_list)}

\* The history a previous run left behind: n batches for the hours n..1.
LoadedHistory(n) == [i \in 1..n |-> batch_entry(n + 1 - i, 0, << >>)]

NoLast ==
    [src |-> "none", hour |-> 0, before |-> << >>, file_before |-> MissingFile,
     n_topics |-> 0, n_raised |-> 0, returned |-> << >>, save |-> "none"]

\* Lines 309-344 of analyze_topics, run by the coordinating thread once every
\* future has been collected: sort, stamp, merge into the history, save, return.
\* (sorted and new are bound over singleton sets: each is computed once.)
FinishBatchWith(src, collected, n_topics, n_raised, hours, outcomes) ==
    \E h \in hours, outcome \in outcomes :
      \E sorted \in {sort_by_rank(collected)} :
        LET entry == batch_entry(h, reads + 1, sorted)
            old == HistoryOf(select_history(src))
        IN  \E new \in {update_history(old, entry)} :
            /\ clock' = h
            /\ reads' = reads + 1
            /\ clock_back' = [clock_back EXCEPT
                                 ![src] = @ \/ (old # << >> /\ h < old[1].timestamp_hour)]
            /\ IF select_history(src) = "weibo"
               THEN /\ history_weibo' = new
                    /\ file_weibo' = save_history_data(new, file_weibo, outcome)
                    /\ UNCHANGED <<history_douyin, file_douyin>>
               ELSE /\ history_douyin' = new
                    /\ file_douyin' = save_history_data(new, file_douyin, outcome)
                    /\ UNCHANGED <<history_weibo, file_weibo>>
            /\ written' = [written EXCEPT ![src] = @ \cup {h}]
            /\ n_updates' = [n_updates EXCEPT ![src] = @ + 1]
            /\ last' = [src |-> src, hour |-> h, before |-> old,
                        file_before |-> FileOf(select_history(src)), n_topics |-> n_topics,
                        n_raised |-> n_raised, returned |-> sorted, save |-> outcome]

\* Variant: a batch without results is not written.
finish_unless_empty(src, collected, n_topics, n_raised) ==
    IF collected = << >>
    THEN UNCHANGED <<store_vars, obs_vars, clock, reads>>
    ELSE FinishBatchWith(src, collected, n_topics, n_raised, ClockReads(clock), SaveOutcomes)

FinishBatch(src, collected, n_topics, n_raised) ==
    FinishBatchWith(src, collected, n_topics, n_raised, ClockReads(clock), SaveOutcomes)

----------------------------------------------------------------------------
(* Start-up: WeiboHotspotAnalyzer.__init__ *)

NoFetch == [outcome |-> "none", n |-> 0, api |-> FALSE, raised |-> FALSE]

\* The report file is "missing", "partial" (opened for writing, which
\* truncates it, and not written to its end) or "complete".
\* A response of the root endpoint: the placeholder page, or the report file
\* in the state it was in when the request was served; n counts the requests.
Response(kind, file, n) == [kind |-> kind, file |-> file, n |-> n]

NoResponse == Response("none", "missing", 0)

\* The analyzer is constructed: the histories are loaded from the files.
Constructed(files) ==
    /\ file_weibo \in files
    /\ file_douyin \in files
    /\ history_weibo = load_history_data(file_weibo)
    /\ history_douyin = load_history_data(file_douyin)
    /\ clock = Max(Len(history_weibo), Len(history_douyin))
    /\ reads = 0
    /\ calls = 0
    /\ last = NoLast
    /\ written = [s \in Sources |-> Hours(IF s = "weibo" THEN history_weibo ELSE history_douyin)]
    /\ n_updates = [s \in Sources |-> 0]
    /\ clock_back = [s \in Sources |-> FALSE]
    /\ cycle = 0
    /\ cycle_result = "none"
    /\ wait = 0
    /\ in_flight = [s \in Sources |-> 0]
    /\ invoked = [s \in Sources |-> 0]
    /\ report = "missing"
    /\ generated = FALSE
    /\ ran = {}
    /\ served = NoResponse

InitWith(files) ==
    /\ Constructed(files)
    /\ pc = "idle"
    /\ source = "weibo"
    /\ topics = << >>
    /\ task = << >>
    /\ future = << >>
    /\ results = << >>
    /\ env = << >>
    /\ fetched = NoFetch

\* main without --interval: one cycle, no scheduling loop.
RunOnce == mode = "once" /\ sched = "none" /\ interval = 0

----------------------------------------------------------------------------
(* Batch coordinator.  Spec follows one batch from start-up: a call of
   fetch_hot_searches, then analyze_topics with its ThreadPoolExecutor, one
   step per thread transition, until analyze_topics has returned. *)

\* The search and generation outcomes an enrichment may meet.
PoolEnvs ==
    {<<"raise", LLMRaises>>,
     <<"ok", LLMRaises>>,
     <<"ok", LLMMapping(TRUE, <<Creative(100, 0)>>)>>}

\* No enrichment has run yet.
NoEnv == <<"none", [kind |-> "none", has_research |-> FALSE, creatives |-> << >>]>>

NoFuture ==
    [raised |-> FALSE, result |-> [topic |-> [rank |-> 0, title |-> <<"none", 0>>, label |-> "", source |-> "none"],
                                   research |-> "none", creatives |-> << >>]]

\* Variant: whatever the future holds is appended.
collect_unguarded(rs, f) == Append(rs, f.result)

\* The body of the as_completed loop: future.result() returns the result,
\* which is appended, or raises, which is caught and logged.
collect(rs, f) == IF f.raised THEN rs ELSE Append(rs, f.result)

Running == {t \in 1..Len(task) : task[t] = "running"}

\* fetch_hot_searches(source, use_api), as run_full_analysis_cycle calls it
Fetch(src) ==
    /\ pc = "idle"
    /\ \E outcome \in IF use_api THEN ApiOutcomes ELSE {NotCalled} :
          LET r == fetch_hot_searches(src, use_api, outcome, MAX_TOPICS)
          IN  /\ topics' = r.items
              /\ fetched' = [outcome |-> outcome.kind, n |-> outcome.n, api |-> use_api,
                             raised |-> r.raised]
              /\ pc' = IF r.raised THEN "crashed" ELSE "fetched"
    /\ source' = src
    /\ UNCHANGED <<config_vars, store_vars, pool_vars, obs_vars, sched_vars, clock, reads,
                   calls, env>>

\* "if weibo_topics:" / "if not topics: return []": no batch for an empty list
SkipAnalysis ==
    /\ pc = "fetched"
    /\ topics = << >>
    /\ pc' = "done"
    /\ fetched' = NoFetch
    /\ UNCHANGED <<config_vars, store_vars, pool_vars, obs_vars, sched_vars, clock, reads,
                   source, topics, calls, env>>

\* executor.submit for every topic
Submit ==
    /\ pc = "fetched"
    /\ topics # << >>
    /\ task' = [t \in 1..Len(topics) |-> "queued"]
    /\ future' = [t \in 1..Len(topics) |-> NoFuture]
    /\ results' = << >>
    /\ pc' = "pool"
    /\ fetched' = NoFetch
    /\ env' = [t \in 1..Len(topics) |-> NoEnv]
    /\ UNCHANGED <<config_vars, store_vars, obs_vars, sched_vars, clock, reads, source,
                   topics, calls>>

\* Variant: a worker thread for every submitted work item.
worker_unbounded(running) == TRUE

\* ThreadPoolExecutor(max_workers=Config.CONCURRENCY): the pool has at most
\* max_workers threads and each runs one work item at a time.
worker_free(running) == Cardinality(running) < CONCURRENCY

\* A free worker takes the oldest queued work item.
StartTask(t) ==
    /\ pc = "pool"
    /\ task[t] = "queued"
    /\ \A u \in 1..(t - 1) : task[u] # "queued"
    /\ worker_free(Running)
    /\ task' = [task EXCEPT ![t] = "running"]
    /\ UNCHANGED <<config_vars, store_vars, obs_vars, sched_vars, clock, reads, pc, source,
                   topics, future, results, calls, fetched, env>>

\* Variant: a raising enrichment cancels the work items still queued.
finish_cancelling(tk, t, f) ==
    [u \in 1..Len(tk) |->
        IF u = t THEN "done"
        ELSE IF f.raised /\ tk[u] = "queued" THEN "cancelled"
        ELSE tk[u]]

\* The worker stores the outcome in the future of its own work item; nothing
\* in analyze_topics cancels a future or shuts the executor down early.
finish(tk, t, f) == [tk EXCEPT ![t] = "done"]

\* The worker's call of _process_single_topic returns or raises.
FinishTask(t) ==
    /\ pc = "pool"
    /\ task[t] = "running"
    /\ \E e \in PoolEnvs :
          LET f == process_single_topic(topics[t], e[1], e[2])
          IN  /\ future' = [future EXCEPT ![t] = f]
              /\ task' = finish(task, t, f)
              /\ env' = [env EXCEPT ![t] = e]
    /\ UNCHANGED <<config_vars, store_vars, obs_vars, sched_vars, clock, reads, pc, source,
                   topics, results, calls, fetched>>

\* One turn of the as_completed loop on a finished future.
Collect(t) ==
    /\ pc = "pool"
    /\ task[t] = "done"
    /\ results' = collect(results, future[t])
    /\ task' = [task EXCEPT ![t] = "collected"]
    /\ UNCHANGED <<config_vars, store_vars, obs_vars, sched_vars, clock, reads, pc, source,
                   topics, future, calls, fetched, env>>

\* Variant: the coordinator goes on once one future has been collected.
first_collected(tk) == \E t \in 1..Len(tk) : tk[t] = "collected"

\* as_completed has yielded every submitted future, and the with block of the
\* executor is left, which waits for every worker.
all_collected(tk) == \A t \in 1..Len(tk) : tk[t] = "collected"

\* The loop is over and the executor has shut down: the tail of analyze_topics.
FinishAnalysis ==
    /\ pc = "pool"
    /\ all_collected(task)
    /\ FinishBatch(source, results, Len(topics),
                   Cardinality({t \in 1..Len(future) : future[t].raised}))
    /\ calls' = calls + 1
    /\ pc' = "done"
    /\ UNCHANGED <<config_vars, sched_vars, source, topics, pool_vars, fetched, env>>

PoolFiles == {MissingFile, JsonFile(LoadedHistory(HISTORY_CAP))}

Init ==
    /\ MAX_TOPICS \in 1..MaxTopicsCfg
    /\ CONCURRENCY \in 1..MaxConcurrencyCfg
    /\ use_api \in BOOLEAN
    /\ InitWith(PoolFiles)
    /\ RunOnce

Next ==
    \/ \E src \in Sources : Fetch(src)
    \/ SkipAnalysis
    \/ Submit
    \/ \E t \in 1..Len(task) : StartTask(t)
    \/ \E t \in 1..Len(task) : FinishTask(t)
    \/ \E t \in 1..Len(task) : Collect(t)
    \/ FinishAnalysis

Spec == Init /\ [][Next]_vars

\* SpecLive: a free worker thread takes a queued work item, every
\* _process_single_topic call returns or raises, and the coordinating thread
\* keeps running its as_completed loop and the tail of analyze_topics.
InitLive ==
    /\ MAX_TOPICS \in 1..MaxTopicsCfg
    /\ CONCURRENCY \in 1..MaxConcurrencyCfg
    /\ use_api \in BOOLEAN
    /\ InitWith({MissingFile})
    /\ RunOnce

SpecLive ==
    /\ InitLive
    /\ [][Next]_vars
    /\ WF_vars(\E t \in 1..Len(task) : StartTask(t))
    /\ WF_vars(\E t \in 1..Len(task) : FinishTask(t))
    /\ WF_vars(\E t \in 1..Len(task) : Collect(t))
    /\ WF_vars(FinishAnalysis)

----------------------------------------------------------------------------
(* History store over successive batches.  SpecStore is the program started
   with --use-example and the mock providers (no LLM_API_KEY, no known
   SEARCH_PROVIDER): each step is a whole fetch_hot_searches plus
   analyze_topics call for one platform. *)

DEFAULT_MAX_TOPICS == 10
DEFAULT_CONCURRENCY == 3

\* MockSearchProvider.search and MockLLMProvider.generate_json: the search
\* returns one result, the mapping has no "research" key and one creative.
MockEnv ==
    <<"ok", LLMMapping(FALSE, <<[Creative(85, 75) EXCEPT !.given_total = 830,
                                                         !.given_class = "excellent"]>>)>>

Perms(n) == {f \in [1..n -> 1..n] : \A i, j \in 1..n : f[i] = f[j] => i = j}

\* The as_completed loop over finished futures, taken in the given order.
RECURSIVE collect_all(_, _, _)
collect_all(order, futs, k) ==
    IF k = 0 THEN << >>
    ELSE collect(collect_all(order, futs, k - 1), futs[order[k]])

RunBatch(src) ==
    /\ pc = "idle"
    /\ calls < MaxUpdates
    /\ LET items == fetch_hot_searches(src, use_api, NotCalled, MAX_TOPICS).items
           futs == [t \in 1..Len(items) |-> process_single_topic(items[t], MockEnv[1], MockEnv[2])]
       IN  /\ items # << >>
           /\ \E order \in Perms(Len(items)) :
                 FinishBatch(src, collect_all(order, futs, Len(items)), Len(items),
                             Cardinality({t \in 1..Len(futs) : futs[t].raised}))
           /\ topics' = items
           /\ env' = [t \in 1..Len(items) |-> MockEnv]
    /\ source' = src
    /\ calls' = calls + 1
    /\ UNCHANGED <<config_vars, pool_vars, sched_vars, pc, fetched>>

StoreFiles ==
    {MissingFile, CorruptFile, JsonFile(LoadedHistory(1)),
     JsonFile(LoadedHistory(HISTORY_CAP - 1)), JsonFile(LoadedHistory(HISTORY_CAP))}

InitStore ==
    /\ MAX_TOPICS = DEFAULT_MAX_TOPICS
    /\ CONCURRENCY = DEFAULT_CONCURRENCY
    /\ use_api = FALSE
    /\ InitWith(StoreFiles)
    /\ RunOnce

NextStore == \E src \in Sources : RunBatch(src)

SpecStore == InitStore /\ [][NextStore]_vars

\* SpecLoad is SpecStore with restarts of the process: the analyzer is
\* constructed again and loads what the previous run left in the files.
Restart ==
    /\ pc = "idle"
    /\ calls > 0
    /\ history_weibo' = load_history_data(file_weibo)
    /\ history_douyin' = load_history_data(file_douyin)
    /\ last' = NoLast
    /\ written' = [s \in Sources |->
                      Hours(load_history_data(IF s = "weibo" THEN file_weibo ELSE file_douyin))]
    /\ n_updates' = [s \in Sources |-> 0]
    /\ clock_back' = [s \in Sources |-> FALSE]
    /\ topics' = << >>
    /\ env' = << >>
    /\ UNCHANGED <<config_vars, pool_vars, sched_vars, file_weibo, file_douyin, clock, reads,
                   pc, source, calls, fetched>>

NextLoad ==
    \/ \E src \in Sources : RunBatch(src)
    \/ Restart

SpecLoad == InitStore /\ [][NextLoad]_vars

----------------------------------------------------------------------------
(* The scheduling loops: main with --interval (mode "cli") and
   scheduled_analysis of app.py (mode "server").  SpecSched runs them with the
   mock providers, one step per call the loop makes; the clock and the
   history files are those of an undisturbed run whose cycles are short,
   SpecStore has the others. *)

MaxCycles == 2          \* cycles per behaviour of SpecSched

RETRY_BACKOFF == 60     \* "time.sleep(60) # Retry after 1 min on error"
SERVER_INTERVAL == 3600 \* "await asyncio.sleep(3600)"
HOUR == 3600            \* "Wait for 1 hour (3600 seconds)"

\* Values of --interval.
Intervals == {1, 3600}

\* What the hot-search source answers in SpecSched: an empty list, or nothing.
SchedOutcomes == {[kind |-> "ok", n |-> 0], [kind |-> "transport_error", n |-> 0]}

\* In scheduled_analysis, where the fetched list is dropped: a list of one
\* item as well.
SrvOutcomes == SchedOutcomes \cup {[kind |-> "ok", n |-> 1]}

\* generate_html_report up to the opening of the report file: the template is
\* missing and the call returns "", the rendering or the open raises, or the
\* file is opened for writing.
ReportOutcomes == {"opened", "no_template", "raise_before_write"}

\* f.write and the closing of the file: done, or an exception of the write.
WriteOutcomes == {"ok", "raise_in_write"}

analysis_vars ==
    <<config_vars, store_vars, pool_vars, obs_vars, clock, reads, pc, source, topics,
      calls, fetched, env>>

\* Variant: no except clause, the exception leaves the loop.
on_error_exit(m) == "exited"

\* Where the loop goes when the cycle raised an Exception: main sleeps 60 s in
\* its except clause; scheduled_analysis prints and goes on to its sleep.
on_error(m) == IF m = "cli" THEN "backoff" ELSE "sleep"

\* The seconds the loop sleeps after a failed cycle.
backoff(m) == IF m = "cli" THEN RETRY_BACKOFF ELSE SERVER_INTERVAL

\* Variant: a timer starts the next cycle whatever the loop is doing.
timer_fires(p) == TRUE

\* The loop returns to its top only from one of its sleeps.
sleep_over(p) == p \in {"sleep", "backoff"}

Analyzing(src) == IF src = "weibo" THEN "weibo_analyze" ELSE "douyin_analyze"

\* run_full_analysis_cycle: weibo, then douyin, then the report.
AfterPlatform(src) == IF src = "weibo" THEN "douyin" ELSE "report"

\* Variant: analyze_topics is called, and goes on, whatever the list holds.
has_topics_always(items) == TRUE

\* "if weibo_topics:" in run_full_analysis_cycle, "if not topics:" in
\* analyze_topics: a list is true when it is not empty.
has_topics(items) == items # << >>

\* The top of "while True": the next cycle begins.
StartCycle ==
    /\ sched = "begin"
    /\ cycle < MaxCycles
    /\ cycle' = cycle + 1
    /\ cycle_result' = "running"
    /\ invoked' = [s \in Sources |-> 0]
    /\ ran' = {}
    /\ sched' = IF mode = "cli" THEN "weibo" ELSE "srv_fetch"
    /\ UNCHANGED <<analysis_vars, mode, interval, wait, in_flight, report, generated,
                   served>>

\* fetch_hot_searches(source=src, use_api=use_api) and, "if topics:", the
\* call of analyze_topics.
CycleFetch(src) ==
    /\ mode = "cli"
    /\ sched = src
    /\ \E outcome \in IF use_api THEN SchedOutcomes ELSE {NotCalled} :
          LET r == fetch_hot_searches(src, use_api, outcome, MAX_TOPICS)
          IN  /\ topics' = r.items
              /\ fetched' = [outcome |-> outcome.kind, n |-> outcome.n, api |-> use_api,
                             raised |-> r.raised]
              /\ ran' = ran \cup {<<IF r.items = << >> THEN "fetch_empty" ELSE "fetch", src>>}
              /\ IF has_topics(r.items)
                 THEN /\ sched' = Analyzing(src)
                      /\ in_flight' = [in_flight EXCEPT ![src] = @ + 1]
                      /\ invoked' = [invoked EXCEPT ![src] = @ + 1]
                 ELSE /\ sched' = AfterPlatform(src)
                      /\ UNCHANGED <<in_flight, invoked>>
    /\ source' = src
    /\ UNCHANGED <<config_vars, store_vars, pool_vars, obs_vars, clock, reads, pc, calls,
                   env, mode, interval, cycle, cycle_result, wait, report, generated,
                   served>>

\* analyze_topics: "if not topics: return []"; otherwise it runs the
\* enrichments, updates the history and returns.
CycleUpdate(src) ==
    /\ mode = "cli"
    /\ sched = Analyzing(src)
    /\ IF has_topics(topics)
       THEN /\ \E futs \in {[t \in 1..Len(topics) |->
                               process_single_topic(topics[t], MockEnv[1], MockEnv[2])]} :
                 \E order \in Perms(Len(topics)) :
                   \E collected \in {collect_all(order, futs, Len(topics))} :
                       FinishBatchWith(src, collected, Len(topics),
                                       Cardinality({t \in 1..Len(futs) : futs[t].raised}),
                                       {clock}, {"ok"})
            /\ env' = [t \in 1..Len(topics) |-> MockEnv]
       ELSE UNCHANGED <<store_vars, obs_vars, clock, reads, env>>
    /\ ran' = ran \cup {<<"analyze", src>>}
    /\ in_flight' = [in_flight EXCEPT ![src] = @ - 1]
    /\ calls' = calls + 1
    /\ fetched' = NoFetch
    /\ sched' = AfterPlatform(src)
    /\ UNCHANGED <<config_vars, pool_vars, pc, source, topics, mode, interval, cycle,
                   cycle_result, wait, invoked, report, generated, served>>

\* The cycle is over: main sleeps args.interval after a cycle that returned,
\* and goes through its except clause after one that raised.
cycle_ends(returned) ==
    /\ cycle_result' = IF returned THEN "complete" ELSE "failed"
    /\ sched' = IF returned THEN "sleep" ELSE on_error(mode)
    /\ wait' = IF returned THEN interval ELSE backoff(mode)

\* generate_html_report up to "with open(output_path, 'w')": with both
\* histories empty or without the template it returns "" and the cycle is
\* over; an exception ends the cycle; open truncates the report file.
CycleReport ==
    /\ mode = "cli"
    /\ sched = "report"
    /\ IF history_weibo = << >> /\ history_douyin = << >>
       THEN cycle_ends(TRUE) /\ UNCHANGED report
       ELSE \E o \in ReportOutcomes :
               IF o = "no_template" THEN cycle_ends(TRUE) /\ UNCHANGED report
               ELSE IF o = "raise_before_write" THEN cycle_ends(FALSE) /\ UNCHANGED report
               ELSE /\ report' = "partial"
                    /\ sched' = "report_write"
                    /\ UNCHANGED <<cycle_result, wait>>
    /\ ran' = ran \cup {<<"report", "all">>}
    /\ UNCHANGED <<analysis_vars, mode, interval, cycle, in_flight, invoked, generated,
                   served>>

\* f.write(report_html), the return of the path, and the end of the cycle.
ReportWrite ==
    /\ mode = "cli"
    /\ sched = "report_write"
    /\ \E o \in WriteOutcomes :
          IF o = "ok"
          THEN /\ report' = "complete"
               /\ generated' = TRUE
               /\ cycle_ends(TRUE)
          ELSE /\ cycle_ends(FALSE)
               /\ UNCHANGED <<report, generated>>
    /\ UNCHANGED <<analysis_vars, mode, interval, cycle, in_flight, invoked, ran, served>>

\* asyncio.to_thread(analyzer.fetch_hot_searches, True): the source is the
\* value True, which is neither platform; what the call returns is dropped.
SrvFetch ==
    /\ mode = "server"
    /\ sched = "srv_fetch"
    /\ \E outcome \in SrvOutcomes :
          LET r == fetch_hot_searches("True", TRUE, outcome, MAX_TOPICS)
          IN  /\ fetched' = [outcome |-> outcome.kind, n |-> outcome.n, api |-> TRUE,
                             raised |-> r.raised]
              /\ ran' = ran \cup {<<IF r.items = << >> THEN "fetch_empty" ELSE "fetch", "True">>}
              /\ IF r.raised
                 THEN /\ cycle_result' = "failed"
                      /\ sched' = on_error(mode)
                      /\ wait' = backoff(mode)
                 ELSE /\ sched' = "srv_analyze"
                      /\ UNCHANGED <<cycle_result, wait>>
    /\ UNCHANGED <<config_vars, store_vars, pool_vars, obs_vars, clock, reads, pc, source,
                   topics, calls, env, mode, interval, cycle, in_flight, invoked, report,
                   generated, served>>

\* asyncio.to_thread(analyzer.analyze_topics): the call passes neither topics
\* nor source, so it raises TypeError before the body of analyze_topics runs;
\* the except clause prints it and the loop sleeps.  generate_html_report, the
\* next statement of the try block, is not reached.
SrvAnalyze ==
    /\ mode = "server"
    /\ sched = "srv_analyze"
    /\ cycle_result' = "failed"
    /\ sched' = on_error(mode)
    /\ wait' = backoff(mode)
    /\ UNCHANGED <<analysis_vars, mode, interval, cycle, in_flight, invoked, report,
                   generated, ran, served>>

\* The sleep is over: back to the top of the loop.  The wall clock shows the
\* next hour after a sleep of an hour, the same hour after a shorter one.
Wake ==
    /\ sleep_over(sched)
    /\ sched' = "begin"
    /\ clock' = clock + (wait \div HOUR)
    /\ UNCHANGED <<config_vars, store_vars, pool_vars, obs_vars, reads, pc, source, topics,
                   calls, fetched, env, mode, interval, cycle, cycle_result, wait, in_flight,
                   invoked, report, generated, ran, served>>

SchedFiles == {MissingFile, JsonFile(LoadedHistory(1))}

InitSched ==
    /\ MAX_TOPICS = DEFAULT_MAX_TOPICS
    /\ CONCURRENCY = DEFAULT_CONCURRENCY
    /\ mode \in {"cli", "server"}
    /\ use_api \in IF mode = "cli" THEN BOOLEAN ELSE {TRUE}
    /\ interval \in IF mode = "cli" THEN Intervals ELSE {SERVER_INTERVAL}
    /\ sched = "begin"
    /\ InitWith(SchedFiles)

NextSched ==
    \/ StartCycle
    \/ \E src \in Sources : CycleFetch(src)
    \/ \E src \in Sources : CycleUpdate(src)
    \/ CycleReport
    \/ ReportWrite
    \/ SrvFetch
    \/ SrvAnalyze
    \/ Wake

\* The loop is one thread (one asyncio task): it makes its next step, and
\* every sleep ends.
SpecSched == InitSched /\ [][NextSched]_vars /\ WF_vars(NextSched)

\* SpecServe: the root endpoint of app.py answers requests while a scheduling
\* loop runs on the same output directory: scheduled_analysis of its own
\* process (mode "server"), or main --interval next to it (mode "cli").

MaxRequests == 2        \* requests of the root endpoint per behaviour of SpecServe

\* read_root: FileResponse(report_path) when os.path.exists(report_path), the
\* "generating" page with status 202 otherwise.
read_root(file, n) ==
    IF file = "missing" THEN Response("placeholder", file, n) ELSE Response("file", file, n)

\* A GET of "/" is served.
Request ==
    /\ served.n < MaxRequests
    /\ served' = read_root(report, served.n + 1)
    /\ UNCHANGED <<analysis_vars, mode, sched, interval, cycle, cycle_result, wait,
                   in_flight, invoked, report, generated, ran>>

NextServe ==
    \/ NextSched
    \/ Request

SpecServe == InitSched /\ [][NextServe]_vars

----------------------------------------------------------------------------
(* The enricher on its own.  SpecEnrich is one call of _process_single_topic
   by a worker: the topic and the answers of the search and generation
   providers are drawn at the start, the step applies the function. *)

MaxResults == 3    \* longest answer of a competitor search
MaxCreatives == 2  \* longest list of creatives in a generation output
MaxScore == 100    \* sub-scores range over 0..MaxScore

Seqs(S, n) == UNION {[1..k -> S] : k \in 0..n}

\* Links: a clean one, "https://www.SimilarWeb.com/website/x", a link with
\* similarweb outside the domain similarweb.com such as
\* "https://github.com/similarweb/x", and "https://dictionary.cambridge.org/x".
Links ==
    {Text({}, TRUE), Text({"similarweb", "similarweb.com"}, FALSE),
     Text({"similarweb"}, TRUE), Text({"dictionary"}, TRUE)}

\* Titles: a clean one, "Similarweb Traffic Rank", "meaning of similar".
Titles == {Text({}, FALSE), Text({"similarweb"}, FALSE), Text({"meaning"}, TRUE)}

\* A search result; the last one has no string under 'link' or 'title'.
SearchResults ==
    [ok : {TRUE}, link : Links, title : Titles]
    \cup {[ok |-> FALSE, link |-> Text({}, TRUE), title |-> Text({}, TRUE)]}

\* One well-formed creative, every answer of its competitor search.
CompetitorInputs ==
    {LLMMapping(TRUE, <<[Creative(85, 75) EXCEPT !.comp = comp]>>) :
        comp \in [raises : {FALSE}, results : Seqs(SearchResults, MaxResults)]
                 \cup {[raises |-> TRUE, results |-> << >>]}}

\* One well-formed creative, every pair of sub-scores, with and without a
\* total and a quality supplied by the generation output.
ScoreInputs ==
    {LLMMapping(TRUE, <<[Creative(i, u) EXCEPT !.given_total = g[1], !.given_class = g[2]]>>) :
        i \in 0..MaxScore, u \in 0..MaxScore,
        g \in {<<-1, "none">>, <<1000, "excellent">>, <<0, "needs-improvement">>}}

\* Creatives with and without a name, a scores mapping, numeric sub-scores,
\* and with a competitor search that answers or raises.
ShapeCreatives ==
    {[Creative(75, 0) EXCEPT !.has_name = n, !.has_scores = s, !.numeric = m, !.comp = comp] :
        n \in BOOLEAN, s \in BOOLEAN, m \in BOOLEAN,
        comp \in {[raises |-> TRUE, results |-> << >>],
                  [raises |-> FALSE, results |-> <<CleanResult>>]}}

ShapeInputs ==
    {LLMRaises}
    \cup {LLMMapping(r, cs) : r \in BOOLEAN, cs \in Seqs(ShapeCreatives, MaxCreatives)}

EnrichInputs ==
    {<<"ok", llm>> : llm \in CompetitorInputs \cup ScoreInputs \cup ShapeInputs}
    \cup {<<"raise", LLMRaises>>}

InitEnrich ==
    /\ MAX_TOPICS = DEFAULT_MAX_TOPICS
    /\ CONCURRENCY = DEFAULT_CONCURRENCY
    /\ use_api = FALSE
    /\ Constructed({MissingFile})
    /\ RunOnce
    /\ pc = "pool"
    /\ source = "weibo"
    /\ \E k \in 1..EXAMPLE_TOPICS : topics = <<load_example_data("weibo")[k]>>
    /\ task = <<"running">>
    /\ future = <<NoFuture>>
    /\ results = << >>
    /\ env \in {<<e>> : e \in EnrichInputs}
    /\ fetched = NoFetch

\* The worker's call of _process_single_topic with the drawn answers.
Enrich ==
    /\ pc = "pool"
    /\ task = <<"running">>
    /\ future' = <<process_single_topic(topics[1], env[1][1], env[1][2])>>
    /\ task' = <<"done">>
    /\ UNCHANGED <<config_vars, store_vars, obs_vars, sched_vars, clock, reads, pc, source,
                   topics, results, calls, fetched, env>>

SpecEnrich == InitEnrich /\ [][Enrich]_vars

----------------------------------------------------------------------------
(* Properties *)

IsSortedByRank(rs) ==
    \A i, j \in 1..Len(rs) : i < j => rs[i].topic.rank < rs[j].topic.rank

Raised == {t \in 1..Len(future) : future[t].raised}

\* C1: whatever the order in which the concurrent enrichments complete and
\* are collected, the results of the batch that analyze_topics writes to the
\* history, which is also the list it returns, are sorted by topic.rank
\* ascending.
C1_ResultsSortedByRank ==
    last.src # "none" =>
        /\ IsSortedByRank(last.returned)
        /\ HistoryOf(last.src)[1].results = last.returned

\* analyze_topics has returned after collecting three results in an order
\* that is not the rank order.
C1_Witness ==
    /\ pc = "done"
    /\ last.src # "none"
    /\ Len(results) = 3
    /\ ~IsSortedByRank(results)
    /\ IsSortedByRank(last.returned)

\* C2: when exactly one of the N enrichments raised out of
\* _process_single_topic, analyze_topics still returns: its batch holds
\* exactly the N-1 results of the other topics and is merged into the
\* platform's history at position 0.
C2_OneRaisedDropsOne ==
    (pc = "done" /\ last.src # "none" /\ Cardinality(Raised) = 1) =>
        /\ last.n_raised = 1
        /\ Len(last.returned) = Len(topics) - 1
        /\ \A t \in 1..Len(future) :
              ~future[t].raised =>
                  \E i \in 1..Len(last.returned) : last.returned[i] = future[t].result
        /\ \A i \in 1..Len(last.returned) :
              \E t \in 1..Len(future) :
                  ~future[t].raised /\ last.returned[i] = future[t].result
        /\ HistoryOf(last.src)[1].results = last.returned
        /\ HistoryOf(last.src)[1].timestamp_hour = last.hour

\* Three topics, the second one raised, the batch holds the other two.
C2_Witness ==
    /\ pc = "done"
    /\ last.src # "none"
    /\ Len(topics) = 3
    /\ Raised = {2}
    /\ Len(HistoryOf(last.src)[1].results) = 2

\* C3: an update of a platform whose position 0 holds the batch of the
\* preceding update leaves the length unchanged and replaces position 0 when
\* both fall in the same clock hour, and otherwise inserts at position 0 and
\* makes the history one longer, up to the cap of 24.
C3_ReplaceOrGrow ==
    (last.src # "none" /\ last.before # << >>) =>
        LET old == last.before
            new == HistoryOf(last.src)
        IN  IF last.hour = old[1].timestamp_hour
            THEN /\ Len(new) = Len(old)
                 /\ new[1].timestamp = <<last.hour, reads>>
                 /\ \A i \in 2..Len(old) : new[i] = old[i]
            ELSE /\ Len(new) = Min(Len(old) + 1, HISTORY_CAP)
                 /\ new[1].timestamp = <<last.hour, reads>>
                 /\ \A i \in 2..Len(new) : new[i] = old[i - 1]

\* The second of two updates of one platform within one hour, on a full
\* history: position 0 is replaced.
C3_Witness ==
    /\ last.src # "none"
    /\ n_updates[last.src] = 2
    /\ Len(last.before) = HISTORY_CAP
    /\ last.before[1].timestamp[2] > 0
    /\ last.hour = last.before[1].timestamp_hour
    /\ Len(HistoryOf(last.src)) = HISTORY_CAP

MostRecent(S, n) == {h \in S : Cardinality({g \in S : g > h}) < n}

\* C5, as stated: after any sequence of updates the hours retained in a
\* platform's history are exactly the (up to) 24 most recent of all the hours
\* ever written for it.
C5_RetainedAreMostRecent ==
    \A s \in Sources : Hours(HistoryOf(s)) = MostRecent(written[s], HISTORY_CAP)

\* C5, amended: as long as no update of a platform has read an earlier clock
\* hour than the platform's update before it, the hours retained in the
\* platform's history are exactly the (up to) 24 most recent of all the hours
\* ever written for it.
C5_RetainedAreMostRecentIfClockMonotone ==
    \A s \in Sources :
        ~clock_back[s] => Hours(HistoryOf(s)) = MostRecent(written[s], HISTORY_CAP)

\* With the clock never set back, a 25th hour was written for a platform and
\* the oldest hour was evicted.
C5_Witness ==
    \E s \in Sources :
          /\ ~clock_back[s]
          /\ Cardinality(written[s]) > HISTORY_CAP
          /\ Len(HistoryOf(s)) = HISTORY_CAP

NoTwoBatchesOfOneHour(history_list) ==
    \A i, j \in 1..Len(history_list) :
        i # j => history_list[i].timestamp_hour # history_list[j].timestamp_hour

\* C6, as stated: in every state no two batches of a platform's history have
\* the same timestamp_hour.
C6_OneBatchPerHour ==
    /\ NoTwoBatchesOfOneHour(history_weibo)
    /\ NoTwoBatchesOfOneHour(history_douyin)

\* C6, amended: as long as no update of a platform has read an earlier clock
\* hour than the platform's update before it, no two batches of the
\* platform's history have the same timestamp_hour; a run in the hour of the
\* newest batch overwrites it.
C6_OneBatchPerHourIfClockMonotone ==
    \A s \in Sources : ~clock_back[s] => NoTwoBatchesOfOneHour(HistoryOf(s))

\* With the clock never set back, a run in the hour of the batch loaded from
\* the file has overwritten that batch.
C6_Witness ==
    /\ last.src # "none"
    /\ ~clock_back[last.src]
    /\ n_updates[last.src] = 1
    /\ last.before # << >>
    /\ last.hour = last.before[1].timestamp_hour
    /\ HistoryOf(last.src)[1].timestamp = <<last.hour, reads>>
    /\ Len(HistoryOf(last.src)) = Len(last.before)

\* C7, as stated: whichever of the steps of _process_single_topic fails, the
\* call does not raise; every finished enrichment has returned a result for
\* its own topic.
C7_EnricherNeverRaises ==
    \A t \in 1..Len(task) :
        task[t] \in {"done", "collected"} =>
            /\ ~future[t].raised
            /\ future[t].result.topic = topics[t]

FailedSourceCalls == {"transport_error", "http_error", "not_json", "bad_code", "bad_items"}

C9_FetchWithinConfiguredMax ==
    pc = "fetched" => Len(topics) <= MAX_TOPICS

\* C10: the ranks of a fetched list are 1..n in list order, every topic
\* carries the requested platform, and a list from the live source is the
\* first min(n, MAX_TOPICS) items of the source's ranking.
C10_RanksArePositions ==
    pc = "fetched" =>
        /\ \A i \in 1..Len(topics) : topics[i].rank = i /\ topics[i].source = source
        /\ (fetched.api /\ fetched.outcome = "ok") =>
              /\ Len(topics) = Min(fetched.n, MAX_TOPICS)
              /\ \A i \in 1..Len(topics) : topics[i].title = <<"api", i>>

\* The live source returned more items than MAX_TOPICS: the list was cut.
C10_Witness ==
    /\ pc = "fetched"
    /\ fetched.api
    /\ fetched.outcome = "ok"
    /\ fetched.n > MAX_TOPICS
    /\ Len(topics) = MAX_TOPICS
    /\ MAX_TOPICS >= 2

\* C11: while analyze_topics runs, the number of _process_single_topic
\* invocations in flight never exceeds Config.CONCURRENCY, and a topic beyond
\* the limit is queued exactly while every worker is busy or an older topic
\* is still queued.
C11_InFlightWithinLimit ==
    /\ Cardinality(Running) <= CONCURRENCY
    /\ \A t \in 1..Len(task) :
          (ENABLED StartTask(t)) => Cardinality(Running) < CONCURRENCY

\* As many enrichments in flight as the limit allows, and a topic waiting.
C11_Witness ==
    /\ pc = "pool"
    /\ CONCURRENCY = 2
    /\ Cardinality(Running) = CONCURRENCY
    /\ \E t \in 1..Len(task) : task[t] = "queued"

\* Every topic's enrichment has run to its end, and the batch holds one
\* result for each topic whose enrichment returned and none for the others.
OneResultPerReturnedTopic ==
    /\ \A t \in 1..Len(topics) :
          /\ task[t] = "collected"
          /\ future[t].result.topic = topics[t]
          /\ Cardinality({i \in 1..Len(last.returned) : last.returned[i].topic = topics[t]})
                = IF future[t].raised THEN 0 ELSE 1
          /\ ~future[t].raised =>
                \E i \in 1..Len(last.returned) : last.returned[i] = future[t].result
    /\ Len(last.returned) = Len(topics) - Cardinality(Raised)

\* C12: once analyze_topics has dispatched its topics, and provided every
\* enrichment terminates, the call eventually returns with every topic's
\* enrichment started and run to its end, whichever of them raised, and its
\* batch holds exactly one result for each topic whose enrichment did not
\* raise.
C12_SiblingsRunToCompletion ==
    (pc = "pool") ~> (pc = "done" /\ last.src # "none" /\ OneResultPerReturnedTopic)

\* Three topics, the first two raised, the third one's result is the batch.
C12_Witness ==
    /\ pc = "done"
    /\ last.src # "none"
    /\ Len(topics) = 3
    /\ Raised = {1, 2}
    /\ OneResultPerReturnedTopic
    /\ Len(last.returned) = 1

\* The pairs <<topic position, idea position>> of the ideas in the results
\* that finished enrichments have returned.
IdeaAt ==
    {p \in (1..Len(task)) \X (1..MaxCreatives + 1) :
        /\ task[p[1]] \in {"done", "collected"}
        /\ ~future[p[1]].raised
        /\ p[2] <= Len(future[p[1]].result.creatives)}

Idea(p) == future[p[1]].result.creatives[p[2]]

\* The creative of the generation output an idea was made from.
Given(p) == env[p[1]][2].creatives[p[2]]

\* The words a competitor entry's link or title holds, whatever the case.
LinkWords(c) == c.url.has
TitleWords(c) == c.name.has

\* C13, as stated: no competitor of an idea comes from a search result whose
\* link or title contains, in whatever case, one of similarweb, dictionary,
\* thesaurus, grammar, stackexchange, definition, meaning.
C13_NoDenylistedCompetitor ==
    \A p \in IdeaAt :
        \A k \in 1..Len(Idea(p).competitors) :
            LET c == Idea(p).competitors[k]
            IN  (LinkWords(c) \cup TitleWords(c)) \cap ({"similarweb"} \cup DenyWords) = {}

\* C13, amended: no competitor of an idea comes from a search result whose
\* title contains similarweb, whose link contains similarweb.com, or whose
\* link or title contains one of dictionary, thesaurus, grammar,
\* stackexchange, definition, meaning, in whatever case; and every competitor
\* is the title and link of a result of the idea's competitor search.
C13_NoDenylistedCompetitorByDomain ==
    \A p \in IdeaAt :
        \A k \in 1..Len(Idea(p).competitors) :
            LET c == Idea(p).competitors[k]
            IN  /\ "similarweb.com" \notin LinkWords(c)
                /\ "similarweb" \notin TitleWords(c)
                /\ (LinkWords(c) \cup TitleWords(c)) \cap DenyWords = {}
                /\ \E j \in 1..Len(Given(p).comp.results) :
                      /\ Given(p).comp.results[j].ok
                      /\ Given(p).comp.results[j].title = c.name
                      /\ Given(p).comp.results[j].link = c.url

\* The search answered a SimilarWeb.com link, a dictionary link and a clean
\* result: the idea's only competitor is the clean one.
C13_Witness ==
    /\ task = <<"done">>
    /\ <<1, 1>> \in IdeaAt
    /\ Len(Given(<<1, 1>>).comp.results) = 3
    /\ Given(<<1, 1>>).comp.results[1].link = Text({"similarweb", "similarweb.com"}, FALSE)
    /\ Given(<<1, 1>>).comp.results[2].link = Text({"dictionary"}, TRUE)
    /\ Given(<<1, 1>>).comp.results[3] = CleanResult
    /\ Idea(<<1, 1>>).competitors = <<[name |-> CleanResult.title, url |-> CleanResult.link]>>

\* C14: for integer sub-scores in 0..MaxScore the enricher sets total to
\* interest*0.8 + usefulness*0.2 and the quality to excellent iff total >= 80,
\* good iff 60 <= total < 80, needs-improvement otherwise; 100/0 is
\* excellent, 75/0 is good, 74/0 is needs-improvement.  Totals are in tenths.
C14_TotalAndQuality ==
    \A p \in IdeaAt :
        Given(p).has_scores =>
            LET i == Given(p).interest
                u == Given(p).usefulness
                q == Idea(p).quality_class
            IN  /\ Idea(p).scores.total = 8 * i + 2 * u
                /\ q \in {"excellent", "good", "needs-improvement"}
                /\ q = "excellent" <=> 8 * i + 2 * u >= 800
                /\ q = "good" <=> (600 <= 8 * i + 2 * u /\ 8 * i + 2 * u < 800)
                /\ (i = 100 /\ u = 0) => q = "excellent"
                /\ (i = 75 /\ u = 0) => q = "good"
                /\ (i = 74 /\ u = 0) => q = "needs-improvement"

\* Interest 75 and usefulness 0: the total is 60.0 and the quality is good.
C14_Witness ==
    /\ task = <<"done">>
    /\ <<1, 1>> \in IdeaAt
    /\ Given(<<1, 1>>).has_scores
    /\ Given(<<1, 1>>).interest = 75
    /\ Given(<<1, 1>>).usefulness = 0
    /\ Idea(<<1, 1>>).scores.total = 600
    /\ Idea(<<1, 1>>).quality_class = "good"

\* C15, as stated: every idea of every returned result carries a
\* scores.total and a quality derived from its interest and usefulness
\* sub-scores, whatever total, quality or scores the generation output
\* supplied for it.
C15_TotalAndQualityAlwaysDerived ==
    \A p \in IdeaAt :
        /\ Idea(p).scores.present
        /\ Idea(p).scores.total = Total10(Interest(Given(p)), Usefulness(Given(p)))
        /\ Idea(p).quality_class = QualityClass(Total10(Interest(Given(p)), Usefulness(Given(p))))

\* C16: an update whose write fails still returns with the new batch at
\* position 0 of the in-memory history, and after an update whose write
\* succeeds the file holds the whole in-memory history, the batch of an
\* earlier failed write included while it is retained.
C16_FailedWriteKeepsMemoryAndIsRepaired ==
    last.src # "none" =>
        LET new == HistoryOf(last.src)
        IN  /\ pc = "idle"
            /\ new = update_history(last.before, batch_entry(last.hour, reads, last.returned))
            /\ new[1].timestamp = <<last.hour, reads>>
            /\ last.save = "ok" => FileOf(last.src) = JsonFile(new)
            /\ last.save = "open_failed" => FileOf(last.src) = last.file_before
            /\ last.save = "dump_failed" => FileOf(last.src).state = "corrupt"

\* The write of a platform's first update failed; its second update, in a
\* later hour, succeeded, and the file holds both batches.
C16_Witness ==
    /\ last.src # "none"
    /\ n_updates[last.src] = 2
    /\ last.save = "ok"
    /\ last.before # << >>
    /\ last.before[1].timestamp[2] > 0
    /\ last.file_before # JsonFile(last.before)
    /\ last.hour # last.before[1].timestamp_hour
    /\ FileOf(last.src).state = "json"
    /\ Len(FileOf(last.src).data) >= 2
    /\ FileOf(last.src).data[2] = last.before[1]

\* C17: a step that updates the history of one platform leaves the other
\* platform's in-memory history and persisted file as they were.
C17_OtherPlatformUntouched ==
    [][\A s \in Sources :
          n_updates'[s] # n_updates[s] =>
              \A o \in Sources \ {s} :
                  /\ HistoryOf(o)' = HistoryOf(o)
                  /\ FileOf(o)' = FileOf(o)
                  /\ n_updates'[o] = n_updates[o]]_vars

\* A douyin update evicted the oldest of 24 douyin batches while weibo's
\* history, loaded from its file, still is what the file holds.
C17_Witness ==
    /\ last.src = "douyin"
    /\ Len(last.before) = HISTORY_CAP
    /\ last.hour # last.before[1].timestamp_hour
    /\ history_douyin[HISTORY_CAP] = last.before[HISTORY_CAP - 1]
    /\ n_updates["weibo"] = 0
    /\ file_weibo.state = "json"
    /\ history_weibo # << >>
    /\ history_weibo = file_weibo.data

\* C18: the load at process start never fails: as long as a platform was
\* not updated since the start, its history is the empty one when the file
\* is missing or unparseable and the batches of the file otherwise, and the
\* analyzer is ready for its first update.
C18_LoadNeverFails ==
    \A s \in Sources :
        n_updates[s] = 0 =>
            /\ pc = "idle"
            /\ FileOf(s).state \in {"missing", "corrupt"} => HistoryOf(s) = << >>
            /\ FileOf(s).state = "json" => HistoryOf(s) = FileOf(s).data

\* After a restart: weibo's file was left unparseable by a failed write and
\* its history is empty; douyin's file holds batches and they are loaded.
C18_Witness ==
    /\ calls > 0
    /\ n_updates = [s \in Sources |-> 0]
    /\ file_weibo.state = "corrupt"
    /\ history_weibo = << >>
    /\ file_douyin.state = "json"
    /\ file_douyin.data # << >>
    /\ history_douyin = file_douyin.data

\* The scheduling loop is asleep after a cycle that raised.
AsleepAfterFailure == cycle_result = "failed" /\ sched \in {"sleep", "backoff"}

C20_CyclesNeverOverlap ==
    /\ \A s \in Sources : in_flight[s] <= 1 /\ invoked[s] <= 1
    /\ in_flight["weibo"] + in_flight["douyin"] <= 1
    /\ sched = "begin" => cycle_result # "running" /\ in_flight = [s \in Sources |-> 0]
    /\ (\E s \in Sources : in_flight[s] > 0) => cycle_result = "running"

\* The second cycle of main has called analyze_topics for weibo, which has
\* returned, and for douyin, which is in flight.
C20_Witness ==
    /\ mode = "cli"
    /\ cycle = 2
    /\ invoked = [s \in Sources |-> 1]
    /\ in_flight = [s \in Sources |-> IF s = "douyin" THEN 1 ELSE 0]

\* C21, as stated: in scheduled_analysis every iteration performs one full
\* cycle: when the hot-search source answered and the iteration has reached
\* its sleep, the cycle has returned and has generated the report; so, with
\* the source answering every time, the report file eventually exists whole
\* and the root endpoint finds it.
C21_ServerCycleGeneratesReport ==
    /\ [](mode = "server" /\ sched = "sleep" /\ fetched.outcome = "ok" =>
            cycle_result = "complete" /\ generated /\ report = "complete")
    /\ (mode = "server" /\ [](fetched.outcome \in {"none", "ok"})) =>
          <>(report = "complete")

\* C22, as stated: a request of the root endpoint served while no report
\* file exists gets the placeholder page, and a request served after a cycle
\* has generated the report gets the report file whole, whatever a later
\* cycle is doing or has failed at.
C22_ServesLastReportInFull ==
    [][served'.n # served.n =>
          /\ report = "missing" => served'.kind = "placeholder"
          /\ generated => served'.kind = "file" /\ served'.file = "complete"]_vars

MostRecentFirst(history_list) ==
    \A i, j \in 1..Len(history_list) :
        i < j => history_list[i].timestamp_hour > history_list[j].timestamp_hour

\* C23: in every state, for either platform, as long as no update of the
\* platform has read an earlier clock hour than the one before it, the
\* history is ordered most-recent-first: timestamp_hour strictly decreases
\* from position 0 to the last position.
C23_MostRecentFirst ==
    \A s \in Sources : ~clock_back[s] => MostRecentFirst(HistoryOf(s))

\* Two updates of a platform in two later hours on top of a loaded batch:
\* three batches, the newest first, the loaded one last.
C23_Witness ==
    /\ last.src # "none"
    /\ ~clock_back[last.src]
    /\ n_updates[last.src] = 2
    /\ Len(HistoryOf(last.src)) = 3
    /\ HistoryOf(last.src)[1].timestamp_hour = last.hour
    /\ HistoryOf(last.src)[2] = last.before[1]
    /\ HistoryOf(last.src)[3].timestamp = <<1, 0>>
    /\ last.hour > last.before[1].timestamp_hour

\* A search result is on the denylist: whatever the case, its title names
\* similarweb, its link names similarweb.com, or either holds a deny word.
Denied(res) ==
    \/ "similarweb.com" \in res.link.has
    \/ "similarweb" \in res.title.has
    \/ (res.link.has \cup res.title.has) \cap DenyWords # {}

\* The positions of the well-formed results that pass the filter.
Passing(rs) == {k \in 1..Len(rs) : rs[k].ok /\ ~Denied(rs[k])}

\* The first up-to-n results that pass the filter, in search-result order,
\* as competitor entries.
FirstPassing(rs, n) ==
    LET P == Passing(rs)
        nth(i) == CHOOSE k \in P : Cardinality({m \in P : m < k}) = i - 1
    IN  [i \in 1..Min(n, Cardinality(P)) |->
            [name |-> rs[nth(i)].title, url |-> rs[nth(i)].link]]

\* The competitor search of a creative failed: the search raised, or the loop
\* came to a result without a string under 'link' or 'title' before it had
\* two competitors.
SearchFailed(comp) ==
    \/ comp.raises
    \/ \E j \in 1..Len(comp.results) :
          /\ ~comp.results[j].ok
          /\ Cardinality({k \in Passing(comp.results) : k < j}) < COMPETITOR_LIMIT

WellFormed(c) == c.has_name /\ (c.has_scores => c.numeric)

\* The idea made from a creative whose competitor search finds nothing.
WithoutCompetitors(topic, i, c) ==
    post_process(topic, i, [c EXCEPT !.comp = [raises |-> FALSE, results |-> << >>]]).creative

\* C25, as stated: when nothing but competitor searches fails in an
\* enrichment, every idea whose competitor search failed, in the search or
\* in the reading of its results, has the empty list as competitors and is
\* otherwise what it would be had the search found nothing (same id, derived
\* total and quality), and the result holds every idea of the generation
\* output and its research summary.
C25_FailedSearchGivesNoCompetitors ==
    \A t \in 1..Len(task) :
        (/\ task[t] \in {"done", "collected"}
         /\ ~future[t].raised
         /\ env[t][2].kind = "mapping"
         /\ \A i \in 1..Len(env[t][2].creatives) : WellFormed(env[t][2].creatives[i])) =>
            LET given == env[t][2].creatives
                ideas == future[t].result.creatives
            IN  /\ Len(ideas) = Len(given)
                /\ future[t].result.research = Research(env[t][2])
                /\ \A i \in 1..Len(given) :
                      SearchFailed(given[i].comp) =>
                          /\ ideas[i].competitors = << >>
                          /\ ideas[i].id = <<topics[t].rank, i>>
                          /\ ideas[i] = WithoutCompetitors(topics[t], i, given[i])

\* C26: when an update whose write succeeded has returned, the file of its
\* platform holds exactly the platform's in-memory history, the same batches
\* in the same order and nothing of what the file held before beyond them:
\* the file is rewritten in full within the update.
C26_FileHoldsWholeHistory ==
    (last.src # "none" /\ last.save = "ok") =>
        /\ n_updates[last.src] > 0
        /\ FileOf(last.src).state = "json"
        /\ Len(FileOf(last.src).data) = Len(HistoryOf(last.src))
        /\ \A i \in 1..Len(HistoryOf(last.src)) :
              FileOf(last.src).data[i] = HistoryOf(last.src)[i]
        /\ FileOf(last.src).data[1].timestamp = <<last.hour, reads>>

\* The file held 24 batches and the update wrote a batch of a new hour: the
\* file holds 24 batches again, the new one first, the oldest one gone.
C26_Witness ==
    /\ last.src # "none"
    /\ last.save = "ok"
    /\ last.file_before.state = "json"
    /\ Len(last.file_before.data) = HISTORY_CAP
    /\ last.hour > last.file_before.data[1].timestamp_hour
    /\ Len(FileOf(last.src).data) = HISTORY_CAP
    /\ FileOf(last.src).data[1].timestamp_hour = last.hour
    /\ FileOf(last.src).data[HISTORY_CAP] = last.file_before.data[HISTORY_CAP - 1]

\* The results of the enrichments that returned, in topic order.
ReturnedInTopicOrder ==
    LET ok == {t \in 1..Len(future) : ~future[t].raised}
        nth(i) == CHOOSE t \in ok : Cardinality({u \in ok : u < t}) = i - 1
    IN  [i \in 1..Cardinality(ok) |-> future[nth(i)].result]

\* A step of a worker thread: a work item is taken up or finished.
WorkerStep ==
    \E t \in 1..Len(task) :
        /\ Len(task') = Len(task)
        /\ task[t] # task'[t]
        /\ task'[t] \in {"running", "done"}

\* C27: in analyze_topics the clock is read for the stamp and the history is
\* read, changed and saved only in a step taken when every dispatched
\* enrichment has finished and been collected; a step of a worker thread
\* leaves the results list, the histories and the files alone; and the batch
\* is the same for every interleaving of the workers: the results of the
\* enrichments that returned, in topic order.
C27_HistoryTouchedAfterAllFinished ==
    /\ [][(<<store_vars, clock, reads, obs_vars>>' # <<store_vars, clock, reads, obs_vars>>) =>
             /\ pc = "pool"
             /\ task # << >>
             /\ \A t \in 1..Len(task) : task[t] = "collected"]_vars
    /\ [][WorkerStep => UNCHANGED <<results, store_vars, clock, reads, obs_vars>>]_vars
    /\ []((pc = "done" /\ last.src # "none") =>
             /\ last.returned = ReturnedInTopicOrder
             /\ HistoryOf(last.src)[1].results = last.returned)

\* Two workers, three topics: the third topic's result was collected before
\* the first one's, the second one's enrichment raised, and the batch written
\* after all three had finished holds the two results in topic order.
C27_Witness ==
    /\ pc = "done"
    /\ last.src # "none"
    /\ CONCURRENCY = 2
    /\ Len(topics) = 3
    /\ Raised = {2}
    /\ Len(results) = 2
    /\ results[1].topic.rank = 3
    /\ results[2].topic.rank = 1
    /\ HistoryOf(last.src)[1].results = <<results[2], results[1]>>

\* The current cycle has fetched the topics of a platform.
Fetched(s) == <<"fetch", s>> \in ran \/ <<"fetch_empty", s>> \in ran

\* C28: in a cycle of run_full_analysis_cycle, from the fetch of a platform
\* that returns no topic to the end of the cycle, the platform's history and
\* file stay as they were and analyze_topics makes no update for it; the
\* cycle goes on: the other platform is fetched, and analyzed when it has
\* topics, and the report generation is called.
C28_EmptyFetchSkipsUpdate ==
    /\ [][\A s \in Sources :
             (<<"fetch_empty", s>> \in ran' /\ cycle' = cycle) =>
                 /\ HistoryOf(s)' = HistoryOf(s)
                 /\ FileOf(s)' = FileOf(s)
                 /\ n_updates'[s] = n_updates[s]]_vars
    /\ [](\A s \in Sources :
             (mode = "cli" /\ <<"report", "all">> \in ran) =>
                 /\ Fetched(s)
                 /\ <<"analyze", s>> \in ran <=> <<"fetch", s>> \in ran)
    /\ \A k \in 1..MaxCycles : \A s \in Sources :
          (mode = "cli" /\ cycle = k /\ <<"fetch_empty", s>> \in ran) ~>
              (cycle = k /\ <<"report", "all">> \in ran /\ \A o \in Sources : Fetched(o))

\* The live source answered an empty list for weibo and nothing for douyin:
\* the cycle has updated douyin with the fallback topics and has written the
\* report, and weibo's history still is the one loaded from its file.
C28_Witness ==
    /\ mode = "cli"
    /\ cycle = 1
    /\ cycle_result = "complete"
    /\ ran = {<<"fetch_empty", "weibo">>, <<"fetch", "douyin">>, <<"analyze", "douyin">>,
              <<"report", "all">>}
    /\ n_updates = [s \in Sources |-> IF s = "douyin" THEN 1 ELSE 0]
    /\ history_weibo # << >>
    /\ file_weibo = JsonFile(history_weibo)
    /\ report = "complete"

\* An idea carries everything the post-processing adds to the creative it
\* was made from: the id of its rank and position, its competitors, the
\* derived total and the quality.
FullyProcessed(idea, rank, i, c) ==
    /\ idea.id = <<rank, i>>
    /\ Len(idea.competitors) <= COMPETITOR_LIMIT
    /\ idea.scores.present
    /\ idea.scores.total = Total10(Interest(c), Usefulness(c))
    /\ idea.quality_class = QualityClass(Total10(Interest(c), Usefulness(c)))

\* C29, as stated: the idea list of a returned result is either every idea
\* of the generation output, each fully post-processed, or the empty list;
\* it is the empty list when the post-processing of any one idea failed.
C29_IdeasAllOrNothing ==
    \A t \in 1..Len(task) :
        (task[t] \in {"done", "collected"} /\ ~future[t].raised) =>
            LET given == env[t][2].creatives
                ideas == future[t].result.creatives
            IN  /\ \/ ideas = << >>
                   \/ /\ Len(ideas) = Len(given)
                      /\ \A i \in 1..Len(given) :
                            FullyProcessed(ideas[i], topics[t].rank, i, given[i])
                /\ (\E i \in 1..Len(given) : ~WellFormed(given[i])) => ideas = << >>

\* C30: a call of analyze_topics with a non-empty topic list makes no
\* history update before its enrichments are over and exactly one by the
\* time it returns, for its own platform; when every enrichment raised, the
\* batch has no results, and it replaces the batch at position 0 when that
\* one is of the same hour and is inserted at position 0 otherwise.
C30_ExactlyOneUpdatePerCall ==
    /\ pc \in {"fetched", "pool"} => n_updates = [s \in Sources |-> 0]
    /\ (pc = "done" /\ topics # << >>) =>
          /\ calls = 1
          /\ last.src = source
          /\ n_updates = [s \in Sources |-> IF s = source THEN 1 ELSE 0]
          /\ HistoryOf(source)[1].timestamp = <<last.hour, reads>>
          /\ last.n_raised = Len(topics) =>
                /\ HistoryOf(source)[1].results = << >>
                /\ IF last.before # << >> /\ last.before[1].timestamp_hour = last.hour
                   THEN /\ Len(HistoryOf(source)) = Len(last.before)
                        /\ \A i \in 2..Len(last.before) : HistoryOf(source)[i] = last.before[i]
                   ELSE /\ Len(HistoryOf(source)) = Min(Len(last.before) + 1, HISTORY_CAP)
                        /\ \A i \in 2..Len(HistoryOf(source)) :
                              HistoryOf(source)[i] = last.before[i - 1]

\* Every one of three enrichments raised, in the hour of the newest of 24
\* loaded batches: that batch was replaced by one without results.
C30_Witness ==
    /\ pc = "done"
    /\ Len(topics) = 3
    /\ Raised = {1, 2, 3}
    /\ Len(last.before) = HISTORY_CAP
    /\ last.hour = last.before[1].timestamp_hour
    /\ n_updates[source] = 1
    /\ Len(HistoryOf(source)) = HISTORY_CAP
    /\ HistoryOf(source)[1].results = << >>
    /\ HistoryOf(source)[1].timestamp[2] = 1

====
